---- MODULE Spec2Model ----
(***************************************************************************)
(* Model of the transfer submission pipeline of tezedge-client:            *)
(* Transfer::execute (cli/src/commands/transfer.rs) driving the node's     *)
(* HTTP interface (lib/src/http_api.rs) and a signer.                      *)
(*                                                                         *)
(* One run of Transfer::execute is a sequential process; every call to an  *)
(* external collaborator (hardware device, node, signer) is one action of  *)
(* the model, which contains the call, the collaborator's answer and what  *)
(* execute does with that answer up to the next call.  The node is an      *)
(* external process: its head and the source account's counter may advance *)
(* between two calls of the run (action NodeAdvance).                      *)
(***************************************************************************)
EXTENDS Integers, Sequences, FiniteSets, TLC

\* ---------------------------------------------------------------- bounds

\* How many blocks the node may bake while one submission runs.
MaxHead == 3

\* The width, in bits, the model gives the u64 arithmetic of the fee.
WordBits == 6

\* ------------------------------------------------------ program constants

\* for _ in 0..10
MaxAttempts == 10

\* .gas_limit(50000.to_string())
GasLimit == 50000

\* ---------------------------------------------------------------- values

NoVal == "none"

KnownWallet == "tz1av5nBB8Jp6VZZDBdmGifRcETaYc7UkEnU"

TrezorAddress == "tz1cQbQUb1EcrEwCgTPPGdoWmixFzRArozYW"

BadAddress == "tz1-not-base58check"

RawFromValues == {KnownWallet, TrezorAddress, BadAddress}

RawToValues == {TrezorAddress, BadAddress}

RawAmountValues == {"1.5", "one-and-a-half"}

RawFeeValues == {"0.0015", "cheap"}

\* PublicKeyHash::from_base58check: Ok for a well-formed checksummed address.
FromBase58CheckOk(s) == s \in {KnownWallet, TrezorAddress}

\* parse_float_amount: Ok for decimal text.
ParseFloatAmountOk(s) == s \in {"1.5", "0.0015"}

\* parse_float_amount: decimal text to minimal units (6 decimal places).
ParseFloatAmount(s) ==
    CASE s = "1.5" -> 1500000
      [] s = "0.0015" -> 1500
      [] OTHER -> 0

\* What the node answers to a request, as ureq sees it.
\*   ok               2xx with a body of the expected shape
\*   transport_error  connection / IO failure
\*   status_error     4xx / 5xx
\*   bad_json         2xx with a body that does not deserialize
NetReplies == {"ok", "transport_error", "status_error", "bad_json"}

\* Answers to preapply: a 2xx body carries the dry-run result of the
\* operation, applied or failed (e.g. balance too low); a stale counter is
\* refused with an error status by the node's precheck.
PreapplyReplies ==
    {"ok_applied", "ok_failed", "counter_rejected",
     "transport_error", "status_error", "bad_json"}

Statuses == {"Refused", "Applied", "Finished"}

DeviceReplies == {"ok", "fail"}

SignTxReplies == {"signature", "cancelled", "device_error"}

VARIABLES
    use_trezor,        \* --trezor
    raw_from,          \* --from
    to,                \* --to
    raw_amount,        \* --amount
    raw_fee,           \* --fee
    pc,                \* position of the run inside execute
    outcome,           \* running | panic | exit_error | returned
    report,            \* what the run printed when it ended
    stdout,            \* what the run printed to stdout
    from,              \* parsed source address
    amount,            \* parsed amount
    fee,               \* parsed fee
    protocol_info,
    counter,
    constants,
    head_block_hash,
    operation_group,
    forged_operation,
    sig_info,
    attempt,           \* iterations of the confirmation loop entered
    loop_exit,         \* how the confirmation loop was left
    calls,             \* every collaborator call made, in order
    node,              \* the node: head level and the source's counter
    op,                \* a NewOperation value
    last,              \* the last method called on op, and its result
    subs,              \* concurrent submissions of one source address
    chain,             \* the node those submissions talk to
    query              \* a call of get_contract_counter, and its result

exec_vars ==
    <<use_trezor, raw_from, to, raw_amount, raw_fee, pc, outcome, report,
      stdout, from, amount, fee, protocol_info, counter, constants,
      head_block_hash, operation_group, forged_operation, sig_info, attempt,
      loop_exit, calls, node>>

op_vars == <<op, last>>

conc_vars == <<subs, chain>>

api_vars == <<query>>

vars == <<exec_vars, op_vars, conc_vars, api_vars>>

inputs == <<use_trezor, raw_from, to, raw_amount, raw_fee>>

fetched == <<protocol_info, counter, constants, head_block_hash>>

parsed == <<from, amount, fee>>

built == <<operation_group, forged_operation, sig_info>>

loop == <<attempt, loop_exit>>

NoReport == [text |-> "", field |-> "", value |-> "", hash |-> <<>>]

\* The values of execute's bindings before they are assigned.
NoProtocolInfo == [protocol_hash |-> "", next_protocol_hash |-> ""]

NoConstants == [hard_storage_limit_per_operation |-> -1]

NoHash == <<"block", -1>>

NoGroup == [branch |-> NoHash, contents |-> <<>>]

NoForged == [forged |-> NoGroup]

NoSigInfo ==
    [signature |-> <<>>, operation_with_signature |-> <<>>,
     operation_hash |-> <<>>]

\* The calls whose answer reads, checks or consumes the account's counter.
CounterCalls ==
    {"get_counter_for_key", "preapply_operations", "inject_operations"}

\* One entry of the call log: the callee, its argument, the answer and, for
\* a call that concerns the account's counter, the on-chain counter when
\* the node served the call; for the fetch of the head hash, the level of
\* the head the node answered with.
Call(name, arg, reply) ==
    [name |-> name, arg |-> arg, reply |-> reply,
     on_chain |-> IF name \in CounterCalls THEN node.counter ELSE -1,
     head |-> IF name = "get_head_block_hash" THEN node.head ELSE -1]

\* The start of a run of Transfer::execute, for any command line.
ExecuteInit ==
    /\ use_trezor \in BOOLEAN
    /\ raw_from \in RawFromValues
    /\ to \in RawToValues
    /\ raw_amount \in RawAmountValues
    /\ raw_fee \in RawFeeValues
    /\ pc = "connect"
    /\ outcome = "running"
    /\ report = NoReport
    /\ stdout = <<>>
    /\ from = NoVal
    /\ amount = -1
    /\ fee = -1
    /\ protocol_info = NoProtocolInfo
    /\ counter = -1
    /\ constants = NoConstants
    /\ head_block_hash = NoHash
    /\ operation_group = NoGroup
    /\ forged_operation = NoForged
    /\ sig_info = NoSigInfo
    /\ attempt = 0
    /\ loop_exit = NoVal
    /\ calls = <<>>
    /\ node = [head |-> 0, counter |-> 0]

\* One run, of one command line, that has not started.
ExecuteIdle ==
    /\ ExecuteInit
    /\ ~use_trezor
    /\ raw_from = KnownWallet
    /\ to = TrezorAddress
    /\ raw_amount = "1.5"
    /\ raw_fee = "0.0015"

\* --------------------------------------------------------- NewOperation

Variants == {"Reveal", "Transaction", "Delegation"}

\* u64, at the width of the model.
Modulus == 2 ^ WordBits

\* The numbers the model draws fees, sizes and prices from: the small
\* ones and the largest of the width.
Amounts == {0, 1, 2, Modulus - 1}

\* The values of NewOperation: one of the three variants around a struct
\* with the shared fields and the fields of the variant (NoVal and -1
\* where the variant has no such field); bytes is what the struct's own
\* estimate_bytes() returns.
Operations ==
    {[variant |-> v, source |-> KnownWallet, fee |-> f, counter |-> 1,
      gas_limit |-> GasLimit, storage_limit |-> 0,
      destination |-> IF v = "Transaction" THEN TrezorAddress ELSE NoVal,
      amount |-> IF v = "Transaction" THEN 1 ELSE -1,
      delegate |-> IF v = "Delegation" THEN TrezorAddress ELSE NoVal,
      public_key |-> IF v = "Reveal" THEN "edpk" ELSE NoVal,
      bytes |-> b] : v \in Variants, f \in Amounts, b \in Amounts}

\* NewOperation::kind_str
KindStr(o) ==
    CASE o.variant = "Reveal" -> "reveal"
      [] o.variant = "Transaction" -> "transaction"
      [] o.variant = "Delegation" -> "delegation"

\* NewOperation::get_fee
GetFee(o) ==
    CASE o.variant = "Reveal" -> o.fee
      [] o.variant = "Transaction" -> o.fee
      [] o.variant = "Delegation" -> o.fee

SetFeeDelegationGas(o, f) ==
    CASE o.variant = "Reveal" -> [o EXCEPT !.fee = f]
      [] o.variant = "Transaction" -> [o EXCEPT !.fee = f]
      [] o.variant = "Delegation" -> [o EXCEPT !.gas_limit = f]

\* NewOperation::set_fee
SetFee(o, f) ==
    CASE o.variant = "Reveal" -> [o EXCEPT !.fee = f]
      [] o.variant = "Transaction" -> [o EXCEPT !.fee = f]
      [] o.variant = "Delegation" -> [o EXCEPT !.fee = f]

\* NewOperation::estimate_bytes
EstimateBytes(o) ==
    CASE o.variant = "Reveal" -> o.bytes
      [] o.variant = "Transaction" -> o.bytes
      [] o.variant = "Delegation" -> o.bytes

\* The fee as a number:
\* base_fee + ceil(bytes * ntez_per_byte) + ceil(gas * ntez_per_gas).
ExactFee(base_fee, ntez_per_byte, ntez_per_gas, estimated_gas, bytes) ==
    base_fee + bytes * ntez_per_byte + estimated_gas * ntez_per_gas

\* estimate_operation_fee in u64: the sum when it fits; when it does not,
\* the arithmetic overflows, which panics in a build with overflow checks
\* and wraps around in a build without.
EstimateOperationFee(base_fee, ntez_per_byte, ntez_per_gas, estimated_gas, bytes) ==
    LET exact == ExactFee(base_fee, ntez_per_byte, ntez_per_gas,
                          estimated_gas, bytes) IN
    IF exact < Modulus
    THEN {[kind |-> "value", value |-> exact]}
    ELSE {[kind |-> "value", value |-> exact % Modulus],
          [kind |-> "panic", value |-> -1]}

\* NewOperation::estimate_fee
EstimateFee(o, base_fee, ntez_per_byte, ntez_per_gas, estimated_gas) ==
    EstimateOperationFee(base_fee, ntez_per_byte, ntez_per_gas,
                         estimated_gas, EstimateBytes(o))

NoArgs == [base_fee |-> -1, ntez_per_byte |-> -1, ntez_per_gas |-> -1,
           estimated_gas |-> -1, fee |-> -1]

NoResult == [kind |-> "none", value |-> -1]

\* No method has been called on op.
NoLast == [fn |-> "none", args |-> NoArgs, result |-> NoResult]

\* No operation is under test.
OpIdle ==
    /\ op = CHOOSE o \in Operations : TRUE
    /\ last = [before |-> op] @@ NoLast

\* op.set_fee(f)
SetFeeCall ==
    /\ \E f \in Amounts :
          /\ op' = SetFee(op, f)
          /\ last' = [fn |-> "set_fee", before |-> op,
                      args |-> [NoArgs EXCEPT !.fee = f],
                      result |-> NoResult]
    /\ UNCHANGED <<exec_vars, conc_vars, api_vars>>

\* op.estimate_fee(base_fee, ntez_per_byte, ntez_per_gas, estimated_gas)
EstimateFeeCall ==
    /\ \E b, pb, pg, g \in Amounts :
          \E r \in EstimateFee(op, b, pb, pg, g) :
             last' = [fn |-> "estimate_fee", before |-> op,
                      args |-> [base_fee |-> b, ntez_per_byte |-> pb,
                                ntez_per_gas |-> pg, estimated_gas |-> g,
                                fee |-> -1],
                      result |-> r]
    /\ UNCHANGED <<op, exec_vars, conc_vars, api_vars>>

\* ------------------------------------------- concurrent submissions

Subs == {1, 2}

\* A submission that has not started.
NoSub ==
    [pc |-> "get_counter_for_key", outcome |-> "running", counter |-> -1,
     operation_group |-> NoGroup, sig_info |-> NoSigInfo, attempt |-> 0]

\* The node: the source's counter, the operations in its pool, and the
\* submissions whose operation a block included or the node refused.
NoChain == [counter |-> 0, pool |-> {}, included |-> {}, refused |-> {}]

ConcIdle ==
    /\ subs = [s \in Subs |-> NoSub]
    /\ chain = NoChain

\* ------------------------------------ HttpApi::get_contract_counter
\* The addresses queried: implicit accounts and an originated contract.
Addresses == {KnownWallet, TrezorAddress, "tz2-account", "KT1-contract"}

\* The statuses of ureq::Error::Status (4xx and 5xx).
StatusCodes == {400, 404, 500, 503}

\* resp.status_text() of the node's answer.
StatusText(code) ==
    CASE code = 400 -> "Bad Request"
      [] code = 404 -> "Not Found"
      [] code = 500 -> "Internal Server Error"
      [] code = 503 -> "Service Unavailable"

\* Bodies of a 2xx answer: a counter, null (node not synced), broken JSON.
JsonBodies == {"0", "1", "2", "3", "null", "{"}

\* Bodies of a 4xx / 5xx answer.
ErrorBodies == {"", "contract not found"}

NoResponse ==
    [kind |-> "none", code |-> -1, status_text |-> "", readable |-> FALSE,
     body |-> ""]

\* What call() can come back with: a response of status 2xx,
\* ureq::Error::Transport, or ureq::Error::Status(code, resp); the body of
\* a response can fail to be read (I/O error).
Responses ==
    {[NoResponse EXCEPT !.kind = "ok", !.code = 200, !.status_text = "OK",
                        !.readable = TRUE, !.body = b] : b \in JsonBodies}
    \cup {[NoResponse EXCEPT !.kind = "ok", !.code = 200,
                             !.status_text = "OK"]}
    \cup {[NoResponse EXCEPT !.kind = "transport"]}
    \cup {[NoResponse EXCEPT !.kind = "status", !.code = c,
                             !.status_text = StatusText(c),
                             !.readable = TRUE, !.body = b] :
             c \in StatusCodes, b \in ErrorBodies}
    \cup {[NoResponse EXCEPT !.kind = "status", !.code = c,
                             !.status_text = StatusText(c)] :
             c \in StatusCodes}

\* GetContractCounterErrorKind, none.
NoKind ==
    [kind |-> "none", cause |-> "none", code |-> -1, status_text |-> "",
     has_message |-> FALSE, message |-> ""]

\* GetContractCounterResult, not returned yet.
NoCounterResult ==
    [ok |-> FALSE, value |-> -1, address |-> "none", kind |-> NoKind]

NoQuery ==
    [pc |-> "idle", outcome |-> "running", addr |-> "none",
     response |-> NoResponse, result |-> NoCounterResult]

QueryIdle == query = NoQuery

Init ==
    /\ ExecuteInit
    /\ OpIdle
    /\ ConcIdle
    /\ QueryIdle

\* ------------------------------------------------------- ways a run ends

\* .unwrap() on an Err / a panic inside a callee.
Panics ==
    /\ pc' = "done"
    /\ outcome' = "panic"
    /\ report' = [text |-> "panic", field |-> "", value |-> "", hash |-> <<>>]

\* exit_with_error(message)
ExitWithError(text, field, value) ==
    /\ pc' = "done"
    /\ outcome' = "exit_error"
    /\ report' = [text |-> text, field |-> field, value |-> value,
                  hash |-> <<>>]

Continue(next) ==
    /\ pc' = next
    /\ UNCHANGED <<outcome, report>>

\* ------------------------------------------------------------- the node

\* ureq's call()/send_json(): Err on a transport failure and on a 4xx/5xx
\* status, Ok(response) otherwise.
UreqCall(r) ==
    IF r \in {"transport_error", "status_error", "counter_rejected"}
    THEN "Err" ELSE "Ok"

\* Response::into_json(): Err when the body does not deserialize.
IntoJson(r) == IF r = "bad_json" THEN "Err" ELSE "Ok"

HttpApiMethodSwallows(r) == "Ok"

\* Every method of HttpApi is Ok(request.call().unwrap().into_json().unwrap()):
\* it returns Ok or panics, it never returns Err.
HttpApiMethod(r) ==
    IF UreqCall(r) = "Err" \/ IntoJson(r) = "Err" THEN "panic" ELSE "Ok"

NodeProtocolInfo ==
    [protocol_hash |-> "PsDELPH1", next_protocol_hash |-> "PsDELPH1-next"]

NodeConstants == [hard_storage_limit_per_operation |-> 60000]

\* The hash of the node's head block.
NodeHeadHash == <<"block", node.head>>

\* The node bakes a block; the block may include an operation of the source
\* account sent by somebody else, which consumes a counter value.
NodeAdvance ==
    /\ outcome = "running"
    /\ node.head < MaxHead
    /\ \E inc \in {0, 1} :
          node' = [head |-> node.head + 1, counter |-> node.counter + inc]
    /\ UNCHANGED <<op_vars, conc_vars, api_vars>>
    /\ UNCHANGED <<inputs, pc, outcome, report, stdout, parsed, fetched,
                   built, loop, calls>>

\* A node that validates counters refuses, at preapply, an operation whose
\* counter is not the account's counter + 1; any other operation gets any
\* other answer.
NodePreapplyReplies(group) ==
    IF \E i \in 1..Len(group.contents) :
          group.contents[i].counter # node.counter + i
    THEN {"counter_rejected", "transport_error"}
    ELSE PreapplyReplies \ {"counter_rejected"}

\* --------------------------------------------------- Transfer::execute

DeviceUnwrapContinues == Continue("parse")

\* .unwrap() on the Err of device.connect() / trezor.init_device()
DeviceUnwrap == Panics

\* let mut device = find_trezor_device();
\* let mut trezor = device.connect().unwrap();
DeviceConnect ==
    /\ pc = "connect"
    /\ \E r \in DeviceReplies :
          /\ calls' = Append(calls, Call("device_connect", NoVal, r))
          /\ IF r = "ok" THEN Continue("init_device") ELSE DeviceUnwrap
    /\ UNCHANGED <<op_vars, conc_vars, api_vars>>
    /\ UNCHANGED <<inputs, stdout, parsed, fetched, built, loop, node>>

\* trezor.init_device().unwrap();
DeviceInit ==
    /\ pc = "init_device"
    /\ \E r \in DeviceReplies :
          /\ calls' = Append(calls, Call("device_init", NoVal, r))
          /\ IF r = "ok" THEN Continue("parse") ELSE DeviceUnwrap
    /\ UNCHANGED <<op_vars, conc_vars, api_vars>>
    /\ UNCHANGED <<inputs, stdout, parsed, fetched, built, loop, node>>

\* The address execute takes as the source.
FromString == IF use_trezor THEN TrezorAddress ELSE raw_from

FirstInvalidSkipsFee ==
    IF ~FromBase58CheckOk(FromString) THEN "from"
    ELSE IF ~FromBase58CheckOk(to) THEN "to"
    ELSE IF ~ParseFloatAmountOk(raw_amount) THEN "amount"
    ELSE "none"

\* The first input, in the order --from, --to, --amount, --fee, that does
\* not parse.
FirstInvalid ==
    IF ~FromBase58CheckOk(FromString) THEN "from"
    ELSE IF ~FromBase58CheckOk(to) THEN "to"
    ELSE IF ~ParseFloatAmountOk(raw_amount) THEN "amount"
    ELSE IF ~ParseFloatAmountOk(raw_fee) THEN "fee"
    ELSE "none"

\* Parsing of --from, --to, --amount and --fee, in this order; the first
\* one that fails ends the run.
ParseInputs ==
    /\ pc = "parse"
    /\ IF FirstInvalid = "from"
       THEN /\ ExitWithError("invalid public key hash", "--from", FromString)
            /\ UNCHANGED parsed
       ELSE IF FirstInvalid = "to"
       THEN /\ ExitWithError("invalid public key hash", "--from", to)
            /\ UNCHANGED parsed
       ELSE IF FirstInvalid = "amount"
       THEN /\ ExitWithError("invalid amount", "amount", raw_amount)
            /\ UNCHANGED parsed
       ELSE IF FirstInvalid = "fee"
       THEN /\ ExitWithError("invalid fee", "fee", raw_amount)
            /\ UNCHANGED parsed
       ELSE /\ Continue("get_protocol_info")
            /\ from' = FromString
            /\ amount' = ParseFloatAmount(raw_amount)
            /\ fee' = ParseFloatAmount(raw_fee)
    /\ UNCHANGED <<op_vars, conc_vars, api_vars>>
    /\ UNCHANGED <<inputs, stdout, fetched, built, loop, calls, node>>

\* let protocol_info = client.get_protocol_info().unwrap();
GetProtocolInfo ==
    /\ pc = "get_protocol_info"
    /\ \E r \in NetReplies :
          /\ calls' = Append(calls, Call("get_protocol_info", NoVal, r))
          /\ IF HttpApiMethod(r) = "Ok"
             THEN /\ Continue("get_counter_for_key")
                  /\ protocol_info' = NodeProtocolInfo
             ELSE /\ Panics
                  /\ UNCHANGED protocol_info
    /\ UNCHANGED <<op_vars, conc_vars, api_vars>>
    /\ UNCHANGED <<inputs, stdout, parsed, counter, constants,
                   head_block_hash, built, loop, node>>

NextCounterAsRead(onChain) == onChain

\* The counter execute gives the operation: the one the node reports + 1.
NextCounter(onChain) == onChain + 1

\* let counter = client.get_counter_for_key(&from).unwrap() + 1;
GetCounterForKey ==
    /\ pc = "get_counter_for_key"
    /\ \E r \in NetReplies :
          /\ calls' = Append(calls, Call("get_counter_for_key", from, r))
          /\ IF HttpApiMethod(r) = "Ok"
             THEN /\ Continue("get_constants")
                  /\ counter' = NextCounter(node.counter)
             ELSE /\ Panics
                  /\ UNCHANGED counter
    /\ UNCHANGED <<op_vars, conc_vars, api_vars>>
    /\ UNCHANGED <<inputs, stdout, parsed, protocol_info, constants,
                   head_block_hash, built, loop, node>>

\* let constants = client.get_constants().unwrap();
GetConstants ==
    /\ pc = "get_constants"
    /\ \E r \in NetReplies :
          /\ calls' = Append(calls, Call("get_constants", NoVal, r))
          /\ IF HttpApiMethod(r) = "Ok"
             THEN /\ Continue("get_head_block_hash")
                  /\ constants' = NodeConstants
             ELSE /\ Panics
                  /\ UNCHANGED constants
    /\ UNCHANGED <<op_vars, conc_vars, api_vars>>
    /\ UNCHANGED <<inputs, stdout, parsed, protocol_info, counter,
                   head_block_hash, built, loop, node>>

\* let head_block_hash = client.get_head_block_hash().unwrap();
GetHeadBlockHash ==
    /\ pc = "get_head_block_hash"
    /\ \E r \in NetReplies :
          /\ calls' = Append(calls, Call("get_head_block_hash", NoVal, r))
          /\ IF HttpApiMethod(r) = "Ok"
             THEN /\ Continue("forge_operations")
                  /\ head_block_hash' = NodeHeadHash
             ELSE /\ Panics
                  /\ UNCHANGED head_block_hash
    /\ UNCHANGED <<op_vars, conc_vars, api_vars>>
    /\ UNCHANGED <<inputs, stdout, parsed, protocol_info, counter, constants,
                   built, loop, node>>

\* NewTransactionOperationBuilder ... .build().unwrap()
NewTransaction ==
    [kind |-> "transaction",
     source |-> from,
     destination |-> to,
     amount |-> amount,
     fee |-> fee,
     counter |-> counter,
     gas_limit |-> GasLimit,
     storage_limit |-> constants.hard_storage_limit_per_operation]

NewOperationGroupAtHead(branch, tx) ==
    [branch |-> NodeHeadHash, contents |-> <<tx>>]

\* NewOperationGroup::new(head_block_hash.clone()).with_transaction(tx)
NewOperationGroup(branch, tx) == [branch |-> branch, contents |-> <<tx>>]

PollKeyIsSignature == sig_info.signature

\* let operation_hash = sig_info.operation_hash.clone(); the lookup key of
\* the status polls.
PollKey == sig_info.operation_hash

\* The bytes the node forges for a group.
ForgedBytes(group) == [forged |-> group]

\* let forged_operation =
\*     client.forge_operations(&head_block_hash, &operation_group).unwrap();
ForgeOperations ==
    /\ pc = "forge_operations"
    /\ LET group == NewOperationGroup(head_block_hash, NewTransaction) IN
       /\ operation_group' = group
       /\ \E r \in NetReplies :
             /\ calls' = Append(calls,
                   Call("forge_operations",
                        [branch |-> head_block_hash, group |-> group], r))
             /\ IF HttpApiMethod(r) = "Ok"
                THEN /\ Continue("sign")
                     /\ forged_operation' = ForgedBytes(group)
                ELSE /\ Panics
                     /\ UNCHANGED forged_operation
    /\ UNCHANGED <<op_vars, conc_vars, api_vars>>
    /\ UNCHANGED <<inputs, stdout, parsed, fetched, sig_info, loop, node>>

\* get_keys_by_pkh: the one wallet the client knows.
GetKeysByPkhOk(pkh) == pkh = KnownWallet

\* The detached signature of forged bytes.
Signature(forged) == <<"sig", forged>>

\* The content hash of a signed operation.
OperationHash(signed) == <<"op-hash", signed>>

\* What a signer returns: signature, forged bytes followed by the
\* signature, and the hash of that.
SignedOperation(forged) ==
    [signature |-> Signature(forged),
     operation_with_signature |-> <<forged, Signature(forged)>>,
     operation_hash |-> OperationHash(<<forged, Signature(forged)>>)]

AfterSignInjects == "inject_operations"

\* The call that follows a successful signature: preapply.
AfterSign == "preapply_operations"

\* if !use_trezor: the key pair of the source, then
\* local_signer.sign_operation(forged_operation.clone()), whose Err is
\* handled by onError.
SignLocalStep(onError) ==
    /\ pc = "sign"
    /\ ~use_trezor
    /\ IF ~GetKeysByPkhOk(from)
       THEN /\ ExitWithError("no local wallet with public key hash", "", from)
            /\ UNCHANGED <<sig_info, calls>>
       ELSE \E r \in {"signature", "sign_error"} :
               /\ calls' = Append(calls,
                     Call("sign_operation", forged_operation, r))
               /\ IF r = "signature"
                  THEN /\ Continue(AfterSign)
                       /\ sig_info' = SignedOperation(forged_operation)
                  ELSE /\ onError
                       /\ UNCHANGED sig_info
    /\ UNCHANGED <<op_vars, conc_vars, api_vars>>
    /\ UNCHANGED <<inputs, stdout, parsed, fetched, operation_group,
                   forged_operation, loop, node>>

SignLocalRetries == SignLocalStep(Continue("sign"))

\* local_signer.sign_operation(forged_operation.clone()).unwrap()
SignLocal == SignLocalStep(Panics)

\* else: dbg!(trezor_execute(trezor.sign_tx(tx))); exit_with_error("");
\* whatever the device answers, the run ends here.
SignTrezor ==
    /\ pc = "sign"
    /\ use_trezor
    /\ \E r \in SignTxReplies :
          /\ calls' = Append(calls, Call("sign_tx", operation_group, r))
          /\ IF r = "signature"
             THEN ExitWithError("", "", "")
             ELSE \/ ExitWithError("", "", "")
                  \/ Panics
    /\ UNCHANGED <<op_vars, conc_vars, api_vars>>
    /\ UNCHANGED <<inputs, stdout, parsed, fetched, built, loop, node>>

PreapplyVerdictIgnored(r) == "Ok"

\* What execute does with the answer to preapply: the HttpApi method
\* unwraps the request and the body, execute unwraps the result and prints
\* it; nothing reads the dry-run result inside the body.
PreapplyVerdict(r) == HttpApiMethod(r)

\* dbg!(client.preapply_operations(&protocol_info.next_protocol_hash,
\*      &head_block_hash, &signature, &operation_group).unwrap());
PreapplyOperations ==
    /\ pc = "preapply_operations"
    /\ \E r \in NodePreapplyReplies(operation_group) :
          /\ calls' = Append(calls,
                Call("preapply_operations",
                     [protocol |-> protocol_info.next_protocol_hash,
                      branch |-> head_block_hash,
                      signature |-> sig_info.signature,
                      group |-> operation_group], r))
          /\ IF PreapplyVerdict(r) = "Ok"
             THEN Continue("inject_operations")
             ELSE Panics
    /\ UNCHANGED <<op_vars, conc_vars, api_vars>>
    /\ UNCHANGED <<inputs, stdout, parsed, fetched, built, loop, node>>

\* client.inject_operations(&operation_with_signature).unwrap();
\* the hash the node returns is dropped.
InjectOperations ==
    /\ pc = "inject_operations"
    /\ \E r \in NetReplies :
          /\ calls' = Append(calls,
                Call("inject_operations",
                     sig_info.operation_with_signature, r))
          /\ IF HttpApiMethod(r) = "Ok"
             THEN Continue("poll")
             ELSE Panics
    /\ UNCHANGED <<op_vars, conc_vars, api_vars>>
    /\ UNCHANGED <<inputs, stdout, parsed, fetched, built, loop, node>>

LoopEndInclusive == MaxAttempts + 1

\* The end of the range of the confirmation loop: for _ in 0..10.
LoopEnd == MaxAttempts

StatusMatchAppliedBreaks(status) ==
    CASE status = "Refused" -> "exit"
      [] status = "Applied" -> "break"
      [] status = "Finished" -> "break"

\* match status { Refused => exit_with_error, Applied => {}, Finished => break }
StatusMatch(status) ==
    CASE status = "Refused" -> "exit"
      [] status = "Applied" -> "next"
      [] status = "Finished" -> "break"

AfterLoopResubmits == "inject_operations"

\* Where the run goes when the loop is left by break or by exhaustion.
AfterLoop == "finish"

\* One iteration of the confirmation loop:
\*   thread::sleep(2 s);
\*   match client.get_pending_operation_status(&operation_hash).unwrap()
PollStatus ==
    /\ pc = "poll"
    /\ attempt < LoopEnd
    /\ attempt' = attempt + 1
    /\ \E r \in Statuses \cup {"error"} :
          /\ calls' = Append(calls,
                Call("get_pending_operation_status", PollKey, r))
          /\ IF r = "error"
             THEN /\ Panics
                  /\ loop_exit' = "poll_error"
             ELSE CASE StatusMatch(r) = "exit" ->
                         /\ ExitWithError("transaction refused", "", "")
                         /\ loop_exit' = "refused"
                    [] StatusMatch(r) = "break" ->
                         /\ Continue(AfterLoop)
                         /\ loop_exit' = "finished"
                    [] StatusMatch(r) = "next" ->
                         IF attempt + 1 < LoopEnd
                         THEN /\ Continue("poll")
                              /\ UNCHANGED loop_exit
                         ELSE /\ Continue(AfterLoop)
                              /\ loop_exit' = "exhausted"
    /\ UNCHANGED <<op_vars, conc_vars, api_vars>>
    /\ UNCHANGED <<inputs, stdout, parsed, fetched, built, node>>

\* After the loop, however it was left: "operation confirmed", the link to
\* the operation, and the hash on stdout when no user attends.
Finish ==
    /\ pc = "finish"
    /\ pc' = "done"
    /\ outcome' = "returned"
    /\ report' = [text |-> "operation confirmed", field |-> "",
                  value |-> "", hash |-> <<sig_info.operation_hash>>]
    /\ \E user_attended \in BOOLEAN :
          stdout' = IF user_attended THEN <<>>
                    ELSE <<sig_info.operation_hash>>
    /\ UNCHANGED <<op_vars, conc_vars, api_vars>>
    /\ UNCHANGED <<inputs, parsed, fetched, built, loop, calls, node>>

\* One step of the run of Transfer::execute.
Execute ==
    \/ DeviceConnect
    \/ DeviceInit
    \/ ParseInputs
    \/ GetProtocolInfo
    \/ GetCounterForKey
    \/ GetConstants
    \/ GetHeadBlockHash
    \/ ForgeOperations
    \/ SignLocal
    \/ SignTrezor
    \/ PreapplyOperations
    \/ InjectOperations
    \/ PollStatus
    \/ Finish

Next == Execute \/ NodeAdvance

Spec == Init /\ [][Next]_vars

\* Every call returns and the run is scheduled: the run takes its next step.
FairSpec == Spec /\ WF_vars(Execute)

\* ------------------------- two runs of execute for one source address
\* The steps of a run that read the account's counter or build, sign, send
\* and poll the run's own operation; each run has its own bindings, the
\* node is the only thing the runs share.

SubEnds(s, how) == [subs[s] EXCEPT !.pc = "done", !.outcome = how]

\* let counter = client.get_counter_for_key(&from).unwrap() + 1;
SubGetCounter(s) ==
    /\ subs[s].pc = "get_counter_for_key"
    /\ \E r \in NetReplies :
          subs' = [subs EXCEPT ![s] =
             IF HttpApiMethod(r) = "Ok"
             THEN [@ EXCEPT !.pc = "forge_operations",
                            !.counter = NextCounter(chain.counter)]
             ELSE SubEnds(s, "panic")]
    /\ UNCHANGED <<chain, exec_vars, op_vars, api_vars>>

\* The transaction of run s.
SubTransaction(s) ==
    [kind |-> "transaction",
     source |-> KnownWallet,
     destination |-> TrezorAddress,
     amount |-> s * ParseFloatAmount("1.5"),
     fee |-> ParseFloatAmount("0.0015"),
     counter |-> subs[s].counter,
     gas_limit |-> GasLimit,
     storage_limit |-> NodeConstants.hard_storage_limit_per_operation]

\* client.forge_operations(&head_block_hash, &operation_group).unwrap()
SubForge(s) ==
    /\ subs[s].pc = "forge_operations"
    /\ \E r \in NetReplies :
          subs' = [subs EXCEPT ![s] =
             IF HttpApiMethod(r) = "Ok"
             THEN [@ EXCEPT !.pc = "sign",
                            !.operation_group =
                               NewOperationGroup(<<"block", 0>>,
                                                 SubTransaction(s))]
             ELSE SubEnds(s, "panic")]
    /\ UNCHANGED <<chain, exec_vars, op_vars, api_vars>>

\* local_signer.sign_operation(forged_operation.clone()).unwrap()
SubSign(s) ==
    /\ subs[s].pc = "sign"
    /\ \E r \in {"signature", "sign_error"} :
          subs' = [subs EXCEPT ![s] =
             IF r = "signature"
             THEN [@ EXCEPT !.pc = AfterSign,
                            !.sig_info =
                               SignedOperation(
                                  ForgedBytes(subs[s].operation_group))]
             ELSE SubEnds(s, "panic")]
    /\ UNCHANGED <<chain, exec_vars, op_vars, api_vars>>

\* The counter-validating node, asked to preapply by one of the runs.
ChainPreapplyReplies(group) ==
    IF \E i \in 1..Len(group.contents) :
          group.contents[i].counter # chain.counter + i
    THEN {"counter_rejected", "transport_error"}
    ELSE PreapplyReplies \ {"counter_rejected"}

\* client.preapply_operations(...).unwrap()
SubPreapply(s) ==
    /\ subs[s].pc = "preapply_operations"
    /\ \E r \in ChainPreapplyReplies(subs[s].operation_group) :
          subs' = [subs EXCEPT ![s] =
             IF PreapplyVerdict(r) = "Ok"
             THEN [@ EXCEPT !.pc = "inject_operations"]
             ELSE SubEnds(s, "panic")]
    /\ UNCHANGED <<chain, exec_vars, op_vars, api_vars>>

\* client.inject_operations(&operation_with_signature).unwrap(): the
\* operation enters the node's pool.
SubInject(s) ==
    /\ subs[s].pc = "inject_operations"
    /\ \E r \in NetReplies :
          IF HttpApiMethod(r) = "Ok"
          THEN /\ subs' = [subs EXCEPT ![s].pc = "poll"]
               /\ chain' = [chain EXCEPT !.pool = @ \cup {s}]
          ELSE /\ subs' = [subs EXCEPT ![s] = SubEnds(s, "panic")]
               /\ UNCHANGED chain
    /\ UNCHANGED <<exec_vars, op_vars, api_vars>>

\* The node bakes a block: an operation of the pool whose counter is the
\* account's counter + 1 is included and consumes the counter value, any
\* other is refused.
NodeInclude(s) ==
    /\ s \in chain.pool
    /\ chain' =
          IF subs[s].operation_group.contents[1].counter = chain.counter + 1
          THEN [chain EXCEPT !.pool = @ \ {s},
                             !.included = @ \cup {s},
                             !.counter = @ + 1]
          ELSE [chain EXCEPT !.pool = @ \ {s},
                             !.refused = @ \cup {s}]
    /\ UNCHANGED <<subs, exec_vars, op_vars, api_vars>>

\* What the node answers to a status poll of run s.
ChainStatuses(s) ==
    IF s \in chain.refused THEN {"Refused"}
    ELSE IF s \in chain.included THEN {"Applied", "Finished"}
    ELSE {"Applied"}

PollCountedShared(s) == Subs

\* The runs whose loop variable an iteration of the loop of run s advances.
PollCounted(s) == {s}

\* One iteration of the confirmation loop of run s.
SubPoll(s) ==
    /\ subs[s].pc = "poll"
    /\ subs[s].attempt < LoopEnd
    /\ \E r \in ChainStatuses(s) \cup {"error"} :
          LET next ==
                 IF r = "error" THEN "panic"
                 ELSE IF StatusMatch(r) = "exit" THEN "exit_error"
                 ELSE IF StatusMatch(r) = "break" THEN AfterLoop
                 ELSE IF subs[s].attempt + 1 < LoopEnd THEN "poll"
                 ELSE AfterLoop
              counted ==
                 [t \in Subs |->
                     IF t \in PollCounted(s)
                     THEN [subs[t] EXCEPT !.attempt = @ + 1]
                     ELSE subs[t]]
          IN subs' = [counted EXCEPT ![s] =
                IF next \in {"panic", "exit_error"}
                THEN [@ EXCEPT !.pc = "done", !.outcome = next]
                ELSE [@ EXCEPT !.pc = next]]
    /\ UNCHANGED <<chain, exec_vars, op_vars, api_vars>>

\* After the loop: "operation confirmed".
SubFinish(s) ==
    /\ subs[s].pc = "finish"
    /\ subs' = [subs EXCEPT ![s] = SubEnds(s, "returned")]
    /\ UNCHANGED <<chain, exec_vars, op_vars, api_vars>>

\* One step of run s.
SubStep(s) ==
    \/ SubGetCounter(s)
    \/ SubForge(s)
    \/ SubSign(s)
    \/ SubPreapply(s)
    \/ SubInject(s)
    \/ SubPoll(s)
    \/ SubFinish(s)

ConcInit ==
    /\ ExecuteIdle
    /\ OpIdle
    /\ ConcIdle
    /\ QueryIdle

ConcNext == \E s \in Subs : SubStep(s) \/ NodeInclude(s)

ConcSpec == ConcInit /\ [][ConcNext]_vars

\* ------------------------------ HttpApi::get_contract_counter, the call

\* impl From<ureq::Error> for GetContractCounterErrorKind
FromUreqError(error) ==
    IF error.kind = "transport"
    THEN [NoKind EXCEPT !.kind = "Transport", !.cause = "ureq::Error"]
    ELSE [NoKind EXCEPT !.kind = "Unknown",
                        !.code = error.code,
                        !.status_text = error.status_text,
                        !.has_message = error.readable,
                        !.message = IF error.readable THEN error.body
                                    ELSE ""]

\* impl From<std::io::Error> for GetContractCounterErrorKind
FromIoError == [NoKind EXCEPT !.kind = "Transport", !.cause = "io::Error"]

\* build_error
BuildError(address, kind) ==
    [NoCounterResult EXCEPT !.address = address, !.kind = kind]

MapErrUnwraps(address, kind) ==
    [outcome |-> "panic", result |-> NoCounterResult]

\* .map_err(|err| build_error(addr, err))?
MapErr(address, kind) ==
    [outcome |-> "returned", result |-> BuildError(address, kind)]

\* into_json: whether the body deserializes to a counter.
JsonOk(body) == body \in {"0", "1", "2", "3"}

\* into_json: the counter the body deserializes to.
JsonValue(body) ==
    CASE body = "0" -> 0
      [] body = "1" -> 1
      [] body = "2" -> 2
      [] body = "3" -> 3
      [] OTHER -> -1

\* client.get_contract_counter(addr) is called.
QueryStart ==
    /\ \/ query.pc = "idle"
       \/ query.pc = "returned" /\ query.outcome = "returned"
    /\ \E a \in Addresses :
          query' = [NoQuery EXCEPT !.pc = "call", !.addr = a]
    /\ UNCHANGED <<exec_vars, op_vars, conc_vars>>

\* self.client.get(url).call().map_err(|err| build_error(addr, err))?
QueryCall ==
    /\ query.pc = "call"
    /\ \E r \in Responses :
          IF r.kind = "ok"
          THEN query' = [query EXCEPT !.pc = "into_json", !.response = r]
          ELSE LET e == MapErr(query.addr, FromUreqError(r)) IN
               query' = [query EXCEPT !.pc = "returned",
                                      !.response = r,
                                      !.outcome = e.outcome,
                                      !.result = e.result]
    /\ UNCHANGED <<exec_vars, op_vars, conc_vars>>

\* Ok(response.into_json().map_err(|err| build_error(addr, err))?)
QueryIntoJson ==
    /\ query.pc = "into_json"
    /\ LET r == query.response IN
       IF r.readable /\ JsonOk(r.body)
       THEN query' = [query EXCEPT
                         !.pc = "returned",
                         !.outcome = "returned",
                         !.result = [NoCounterResult EXCEPT
                                        !.ok = TRUE,
                                        !.value = JsonValue(r.body)]]
       ELSE LET e == MapErr(query.addr, FromIoError) IN
            query' = [query EXCEPT !.pc = "returned",
                                   !.outcome = e.outcome,
                                   !.result = e.result]
    /\ UNCHANGED <<exec_vars, op_vars, conc_vars>>

QueryInit ==
    /\ ExecuteIdle
    /\ OpIdle
    /\ ConcIdle
    /\ QueryIdle

QueryNext == QueryStart \/ QueryCall \/ QueryIntoJson

QuerySpec == QueryInit /\ [][QueryNext]_vars

\* Any NewOperation, and any sequence of set_fee and estimate_fee on it.
OpInit ==
    /\ ExecuteIdle
    /\ ConcIdle
    /\ QueryIdle
    /\ op \in Operations
    /\ last = [before |-> op] @@ NoLast

OpNext == SetFeeCall \/ EstimateFeeCall

OpSpec == OpInit /\ [][OpNext]_vars

\* ======================================================= the call log

Idx == 1..Len(calls)

Named(n) == {i \in Idx : calls[i].name = n}

FetchNames ==
    {"get_protocol_info", "get_counter_for_key", "get_constants",
     "get_head_block_hash"}

SignNames == {"sign_operation", "sign_tx"}

PollName == "get_pending_operation_status"

Polls == Named(PollName)

\* The statuses the node returned to the polls, in order.
RECURSIVE StatusesFrom(_)
StatusesFrom(i) ==
    IF i > Len(calls) THEN <<>>
    ELSE IF calls[i].name = PollName
         THEN <<calls[i].reply>> \o StatusesFrom(i + 1)
         ELSE StatusesFrom(i + 1)

PolledStatuses == StatusesFrom(1)

\* The place of a node or signer call in the pipeline.
Stage(n) ==
    CASE n \in FetchNames -> 1
      [] n = "forge_operations" -> 2
      [] n \in SignNames -> 3
      [] n = "preapply_operations" -> 4
      [] n = "inject_operations" -> 5
      [] n = PollName -> 6
      [] OTHER -> 0

\* An earlier call of the given name that was answered with one of the
\* given replies.
Before(i, n, replies) ==
    \E k \in 1..(i - 1) : calls[k].name = n /\ calls[k].reply \in replies

\* The counter field of the operation a forge, preapply or inject call sent.
OpCounter(c) ==
    IF c.name = "inject_operations"
    THEN c.arg[1].forged.contents[1].counter
    ELSE c.arg.group.contents[1].counter

Fatal == pc = "done" /\ outcome \in {"panic", "exit_error"}

\* ================================================================ claims

\* C1: the node and signer calls of one run occur in the order fetches,
\* forge, sign, preapply, inject, status polls; forge is called only after
\* each of the four fetches succeeded, sign only after forge succeeded,
\* preapply only after sign succeeded, inject only after preapply
\* returned, and a poll only after inject returned.
C1_CallOrder ==
    /\ \A i, j \in Idx :
          (i < j /\ Stage(calls[i].name) > 0 /\ Stage(calls[j].name) > 0)
             => /\ Stage(calls[i].name) <= Stage(calls[j].name)
                /\ Stage(calls[i].name) \in 2..5
                      => Stage(calls[i].name) < Stage(calls[j].name)
    /\ \A i \in Named("forge_operations") :
          \A n \in FetchNames : Before(i, n, {"ok"})
    /\ \A i \in Idx :
          calls[i].name \in SignNames
             => Before(i, "forge_operations", {"ok"})
    /\ \A i \in Named("preapply_operations") :
          Before(i, "sign_operation", {"signature"})
    /\ \A i \in Named("inject_operations") :
          Before(i, "preapply_operations", {"ok_applied", "ok_failed"})
    /\ \A i \in Polls : Before(i, "inject_operations", {"ok"})

C1_Witness ==
    /\ Cardinality(Polls) >= 2
    /\ Cardinality(Named("inject_operations")) = 1
    /\ pc = "done"

\* C2 (as claimed): whenever the node's preapply answer reports a
\* validation failure, the run has ended as fatal and inject_operations is
\* never called.
C2_PreapplyFailureIsFatal ==
    \A i \in Named("preapply_operations") :
       calls[i].reply \in {"ok_failed", "counter_rejected"}
          => Fatal /\ Named("inject_operations") = {}

\* C3: the polls stop at the first status that is not Applied: every poll
\* but the last returned Applied; after Finished the loop is left as
\* confirmed and the run reports "operation confirmed"; after Refused the
\* run has ended with the error "transaction refused"; after Applied, with
\* attempts left, the run is still polling.
C3_PollsStopAtFirstNonApplied ==
    LET st == PolledStatuses
        k == Len(st) IN
    /\ k = attempt
    /\ \A j \in 1..(k - 1) : st[j] = "Applied"
    /\ (k > 0 /\ st[k] = "Finished") =>
          /\ loop_exit = "finished"
          /\ pc \in {"finish", "done"}
          /\ pc = "done" =>
                outcome = "returned" /\ report.text = "operation confirmed"
    /\ (k > 0 /\ st[k] = "Refused") =>
          /\ loop_exit = "refused"
          /\ pc = "done"
          /\ outcome = "exit_error"
          /\ report.text = "transaction refused"
    /\ (k > 0 /\ k < MaxAttempts /\ st[k] = "Applied") =>
          pc = "poll" /\ outcome = "running"

C3_Witness ==
    /\ PolledStatuses = <<"Applied", "Applied", "Finished">>
    /\ pc = "done"
    /\ outcome = "returned"

\* C4 (as claimed): when every poll of the attempt budget returned Applied,
\* the run ends with a report that is neither the one of a confirmed
\* operation nor the one of a refused operation.
C4_TimedOutIsSurfaced ==
    (pc = "done" /\ loop_exit = "exhausted")
       => report.text \notin {"operation confirmed", "transaction refused"}

\* C5: inject_operations is called at most once in a run, and once the
\* first poll is made every later call is a poll (no forge, sign, preapply
\* or inject follows a poll).
C5_InjectAtMostOnce ==
    /\ Cardinality(Named("inject_operations")) <= 1
    /\ \A i, j \in Idx :
          (i < j /\ calls[i].name = PollName) => calls[j].name = PollName

C5_Witness ==
    /\ Cardinality(Polls) = MaxAttempts
    /\ \A i \in Polls : calls[i].reply = "Applied"
    /\ Cardinality(Named("inject_operations")) = 1
    /\ pc = "done"

\* C6: a run never makes more than 10 status polls, and a run that is
\* polling eventually ends, the loop having been left by Finished, by
\* Refused or by exhaustion of the attempts (or by a poll that failed).
C6_LoopTerminates ==
    /\ [](Cardinality(Polls) <= 10)
    /\ (pc = "poll") ~>
          (/\ pc = "done"
           /\ loop_exit \in {"finished", "refused", "exhausted", "poll_error"}
           /\ loop_exit = "poll_error" =>
                 \E i \in Polls : calls[i].reply = "error")

C6_Witness ==
    /\ pc = "done"
    /\ loop_exit = "exhausted"
    /\ Cardinality(Polls) = 10

\* The call that read the source's counter.
CounterReads ==
    {i \in Named("get_counter_for_key") : calls[i].reply = "ok"}

SentOperation == {"forge_operations", "preapply_operations",
                  "inject_operations"}

Submitted == {"preapply_operations", "inject_operations"}

\* C7 (as claimed): the counter of the operation that is preapplied and
\* injected is the account's on-chain counter + 1 at the moment of that
\* call.
C7_CounterFreshAtSubmission ==
    \A i \in Idx :
       calls[i].name \in Submitted
          => OpCounter(calls[i]) = calls[i].on_chain + 1

\* C7 (amended): the counter of the operation that is forged, preapplied
\* and injected is the counter the node reported to this run's
\* get_counter_for_key, + 1; it is the on-chain counter + 1 at the moment
\* of the call when the account's counter has not moved since it was read.
C7_CounterIsReadPlusOne ==
    \A i \in Idx :
       calls[i].name \in SentOperation
          => \E k \in CounterReads :
                /\ k < i
                /\ OpCounter(calls[i]) = calls[k].on_chain + 1
                /\ (calls[i].name \in Submitted
                      /\ calls[i].on_chain = calls[k].on_chain)
                      => OpCounter(calls[i]) = calls[i].on_chain + 1

C7_Witness ==
    \E i \in Named("inject_operations") :
       \E k \in CounterReads :
          /\ calls[i].on_chain > calls[k].on_chain
          /\ calls[i].reply = "ok"

\* C8: against a node that validates counters, a preapply whose operation
\* counter is the on-chain counter + 1 is not refused for its counter, and
\* a preapply whose operation counter is stale is refused, ends the run,
\* and no inject call is made.
C8_CounterContract ==
    \A i \in Named("preapply_operations") :
       IF OpCounter(calls[i]) = calls[i].on_chain + 1
       THEN calls[i].reply # "counter_rejected"
       ELSE /\ UreqCall(calls[i].reply) = "Err"
            /\ Fatal
            /\ Named("inject_operations") = {}

C8_Witness ==
    \E i \in Named("preapply_operations") :
       /\ OpCounter(calls[i]) # calls[i].on_chain + 1
       /\ calls[i].reply = "counter_rejected"
       /\ pc = "done"

\* C9 (as claimed): a run with the hardware signer in which the device
\* returned a signature goes on to preapply as a run with the local signer
\* does: it has not ended without a preapply call.
C9_HardwareSignerContinues ==
    \A i \in Named("sign_tx") :
       calls[i].reply = "signature"
          => ~(pc = "done" /\ Named("preapply_operations") = {})

\* Signing failed: no key pair for the source, or the signer returned an
\* error.
SignFailed ==
    \/ report.text = "no local wallet with public key hash"
    \/ \E i \in Idx :
          calls[i].name \in SignNames /\ calls[i].reply # "signature"

\* C10: a run calls a signer at most once, and when signing fails the run
\* has ended with a failure and neither preapply_operations nor
\* inject_operations is called.
C10_SignOnceAndFatal ==
    /\ Cardinality({i \in Idx : calls[i].name \in SignNames}) <= 1
    /\ SignFailed =>
          /\ Fatal
          /\ Named("preapply_operations") = {}
          /\ Named("inject_operations") = {}

C10_Witness ==
    /\ \E i \in Named("sign_operation") : calls[i].reply = "sign_error"
    /\ pc = "done"

\* The answers with which a node call or a forge failed.
NetFailures == {"transport_error", "status_error", "bad_json"}

\* C11: when one of the four fetches or forge fails, the run has ended as
\* failed at that call: the failed call is the only call of its name and
\* the last call of the run, so that no sign, preapply, inject or poll
\* follows it.
C11_FetchFailureIsFatal ==
    \A i \in Idx :
       (/\ calls[i].name \in FetchNames \cup {"forge_operations"}
        /\ calls[i].reply \in NetFailures)
          => /\ Fatal
             /\ i = Len(calls)
             /\ Cardinality(Named(calls[i].name)) = 1

C11_Witness ==
    /\ \E i \in Named("forge_operations") : calls[i].reply = "status_error"
    /\ pc = "done"

\* A run to which an operation hash has been assigned.
HashAssigned == \E i \in Named("sign_operation") : calls[i].reply = "signature"

\* C12 (as claimed): a run that ended after an operation hash was assigned
\* reports that hash with its terminal state.
C12_TerminalReportCarriesHash ==
    (pc = "done" /\ HashAssigned)
       => report.hash = <<sig_info.operation_hash>>

HttpApiCalls ==
    FetchNames \cup
       {"forge_operations", "preapply_operations", "inject_operations"}

\* C13 (as claimed): a node call of HttpApi that met a network failure
\* returned an error value: the method's result is Err, and the run was
\* not aborted inside the call.
C13_TransportErrorIsReturned ==
    \A i \in Idx :
       (calls[i].name \in HttpApiCalls /\ calls[i].reply = "transport_error")
          => HttpApiMethod(calls[i].reply) = "Err" /\ outcome # "panic"

\* The operation hash the node answers to an inject call with.
InjectedHash(c) == OperationHash(c.arg)

FetchedHeads ==
    {<<"block", calls[k].head>> :
        k \in {j \in Named("get_head_block_hash") : calls[j].reply = "ok"}}

\* C17: protocol info, counter, constants and head hash are each fetched
\* at most once, and exactly once before forge; the one head hash fetched
\* is the branch of the operation group, of the forge request and of the
\* preapply request.
C17_FetchedOnceOneBranch ==
    /\ \A n \in FetchNames : Cardinality(Named(n)) <= 1
    /\ \A i \in Named("forge_operations") :
          /\ \A n \in FetchNames :
                Cardinality({k \in Named(n) : k < i}) = 1
          /\ FetchedHeads = {calls[i].arg.branch}
          /\ FetchedHeads = {calls[i].arg.group.branch}
    /\ \A i \in Named("preapply_operations") :
          /\ FetchedHeads = {calls[i].arg.branch}
          /\ FetchedHeads = {calls[i].arg.group.branch}

C17_Witness ==
    \E i \in Named("preapply_operations") :
       /\ calls[i].arg.branch # NodeHeadHash
       /\ calls[i].reply = "ok_applied"

\* C18 (as claimed): the error reported for an input that does not parse
\* names the field and carries the string of that input.
C18_ErrorNamesOffendingInput ==
    /\ (/\ pc = "done"
        /\ report.text = "invalid public key hash"
        /\ FromBase58CheckOk(FromString))
          => report.field = "--to" /\ report.value = to
    /\ (pc = "done" /\ report.text = "invalid fee")
          => report.value = raw_fee

\* One of the four inputs execute parses does not parse.
SomeInputInvalid ==
    \/ ~FromBase58CheckOk(FromString)
    \/ ~FromBase58CheckOk(to)
    \/ ~ParseFloatAmountOk(raw_amount)
    \/ ~ParseFloatAmountOk(raw_fee)

\* C19: when the source address, the destination address, the amount or
\* the fee does not parse, no node or signer call is ever made, and the
\* run ends at the parsing with an error.
C19_InvalidInputNoNodeCall ==
    SomeInputInvalid
       => /\ \A i \in Idx : Stage(calls[i].name) = 0
          /\ pc \in {"connect", "init_device", "parse", "done"}
          /\ (pc = "done" /\ Len(calls) = 2 /\ calls[2].reply = "ok")
                => outcome = "exit_error"

C19_Witness ==
    /\ ~ParseFloatAmountOk(raw_fee)
    /\ FromBase58CheckOk(FromString)
    /\ FromBase58CheckOk(to)
    /\ ParseFloatAmountOk(raw_amount)
    /\ pc = "done"
    /\ outcome = "exit_error"

C16_SetFeeFrame ==
    last.fn = "set_fee" =>
       /\ GetFee(op) = last.args.fee
       /\ op.variant = last.before.variant
       /\ KindStr(op) = KindStr(last.before)
       /\ op.source = last.before.source
       /\ op.counter = last.before.counter
       /\ op.gas_limit = last.before.gas_limit
       /\ op.storage_limit = last.before.storage_limit
       /\ op.destination = last.before.destination
       /\ op.amount = last.before.amount
       /\ op.delegate = last.before.delegate
       /\ op.public_key = last.before.public_key

C16_Witness ==
    /\ last.fn = "set_fee"
    /\ op.variant = "Delegation"
    /\ last.args.fee # last.before.fee
    /\ op.fee = Modulus - 1

\* The runs whose operation reached the node's pool.
Injected == chain.pool \cup chain.included \cup chain.refused

SubOpCounter(s) == subs[s].operation_group.contents[1].counter

\* A step that changes run s leaves the operation, the signed result and
\* the poll count of every other run as they were.
Isolation ==
    \A s \in Subs :
       subs'[s] # subs[s] =>
          \A t \in Subs \ {s} :
             /\ subs'[t].operation_group = subs[t].operation_group
             /\ subs'[t].sig_info = subs[t].sig_info
             /\ subs'[t].attempt = subs[t].attempt

\* C20: of two runs that submitted operations with the same counter the
\* node includes at most one, and a step of one run leaves the other run's
\* operation, signed result and poll count unchanged.  (That both runs can
\* read the same counter and submit it is the witness.)
C20_RaceNoSharedState ==
    /\ [](\A s, t \in Subs :
            (/\ s # t
             /\ {s, t} \subseteq Injected
             /\ SubOpCounter(s) = SubOpCounter(t))
               => ~({s, t} \subseteq chain.included))
    /\ [][Isolation]_vars

C20_Witness ==
    /\ Injected = Subs
    /\ SubOpCounter(1) = SubOpCounter(2)
    /\ subs[1].counter = NextCounter(0)
    /\ chain.included = {1}
    /\ chain.refused = {2}
    /\ subs[2].outcome = "exit_error"

\* C21: get_contract_counter never aborts on a failed request; a transport
\* failure and a body-read I/O error are returned as Err of kind Transport,
\* an error status as Err of kind Unknown with the status code, the node's
\* status text and the body when readable; each error carries the address
\* queried; Ok is returned only for a successful request whose body parsed.
C21_CounterErrorsAreReturned ==
    query.pc = "returned" =>
       LET r == query.response
           res == query.result IN
       /\ query.outcome = "returned"
       /\ (r.kind = "transport" \/ (r.kind = "ok" /\ ~r.readable)) =>
             /\ ~res.ok
             /\ res.kind.kind = "Transport"
             /\ res.address = query.addr
       /\ r.kind = "status" =>
             /\ ~res.ok
             /\ res.kind.kind = "Unknown"
             /\ res.kind.code = r.code
             /\ res.kind.status_text = r.status_text
             /\ r.readable =>
                   res.kind.has_message /\ res.kind.message = r.body
             /\ res.address = query.addr
       /\ res.ok =>
             /\ r.kind = "ok"
             /\ r.readable
             /\ r.body \in {"0", "1", "2", "3"}
       /\ ~res.ok => res.address = query.addr

C21_Witness ==
    /\ query.pc = "returned"
    /\ query.addr = "KT1-contract"
    /\ query.response.kind = "status"
    /\ query.response.code = 404
    /\ query.response.readable
    /\ query.result.kind.kind = "Unknown"
    /\ query.result.kind.message = "contract not found"
    /\ query.result.address = "KT1-contract"

DeviceNames == {"device_connect", "device_init"}

\* A call to the device came back with an error.
DeviceFailed ==
    \E i \in Idx : calls[i].name \in DeviceNames /\ calls[i].reply # "ok"

\* The device was connected and then initialised, as the first two calls.
DeviceReady ==
    /\ Len(calls) >= 2
    /\ calls[1].name = "device_connect" /\ calls[1].reply = "ok"
    /\ calls[2].name = "device_init" /\ calls[2].reply = "ok"

\* The parsing of the inputs took place: it bound the source address or
\* ended the run with an error message.
InputsValidated == from # NoVal \/ outcome = "exit_error"

\* C22: in every run, with or without --trezor, the device was connected
\* and initialised before any input was validated and before any node or
\* signer call; when connecting or initialising fails the run aborts there,
\* with no input validated and no node call made.
C22_DeviceFirst ==
    /\ (InputsValidated \/ \E i \in Idx : Stage(calls[i].name) >= 1)
          => DeviceReady
    /\ DeviceFailed =>
          /\ pc = "done"
          /\ outcome = "panic"
          /\ ~InputsValidated
          /\ \A i \in Idx : Stage(calls[i].name) = 0
          /\ calls[Len(calls)].name \in DeviceNames

C22_Witness ==
    /\ ~use_trezor
    /\ ~SomeInputInvalid
    /\ raw_from = KnownWallet
    /\ DeviceFailed
    /\ Len(calls) = 2
    /\ pc = "done"
    /\ outcome = "panic"

====
